---- MODULE Spec2Model ----
(***************************************************************************)
(* Bit-banged SPI master of BW_SPI_V1.00.py (class spi).                   *)
(*                                                                         *)
(* The model follows spi.transfer statement by statement: the sequences    *)
(* of '0'/'1' characters are built as the f-strings build them, the loop   *)
(* over zip(SEL_SQ, CLK_SQ, DTO_SQ, TRG_SQ) is one step per port           *)
(* operation (pinwrite MOSI, pinwrite SCK, pinwrite CS, pinread MISO), and *)
(* the return converts the recorded characters with int(.., 2).            *)
(* Characters are one-character strings, pin levels are LOW/HIGH.          *)
(* Half-cycle indices are 0-based as in the source; At(s, i) reads         *)
(* position i of a sequence.                                               *)
(***************************************************************************)
EXTENDS Integers, Sequences, FiniteSets, TLC

VARIABLES
    BITW,       \* spi.BITW, data bit width
    CPOL,       \* spi.CPOL, clock polarity
    CPHA,       \* spi.CPHA, clock phase
    loopback,   \* wiring: TRUE when MISO is connected to MOSI
    pc,         \* position of the program: idle, one of IOOrder, ret, done, error
    data,       \* argument of the current transfer call
    idx,        \* 0-based position of the zip iteration
    mosi,       \* level of PIN_MOSI
    sck,        \* level of PIN_SCK
    cs,         \* level of PIN_CS
    MISO,       \* list MISO of transfer
    DATA,       \* list DATA of transfer
    result,     \* value returned by the transfer, 0 until it returns
    err,        \* exception that ended the program, "none" otherwise
    trace,      \* port operations of the current transfer, in order
    sampled,    \* half-cycle indices at which DATA.append ran
    calls,      \* two transfer calls running concurrently on the same pins
    overlapped  \* TRUE once one of them started while the other was running

\* the state of the concurrent calls, left alone by the single caller
concVars == <<calls, overlapped>>

vars == <<BITW, CPOL, CPHA, loopback, pc, data, idx, mosi, sck, cs,
          MISO, DATA, result, err, trace, sampled, calls, overlapped>>

(***************************************************************************)
(* Bounds of the exploration.                                              *)
(***************************************************************************)
\* largest bit width explored
MaxW == 3

\* how far above 2^BITW the explored words go
MaxExcess == 1

\* largest bit width explored with two concurrent calls
MaxConcW == 2

(***************************************************************************)
(* RPi.GPIO levels and the casting dictionaries.                           *)
(***************************************************************************)
LOW == 0

HIGH == 1

LEVEL == [c \in {"0", "1"} |-> IF c = "0" THEN LOW ELSE HIGH]

SYMBL == [l \in {LOW, HIGH} |-> IF l = LOW THEN "0" ELSE "1"]

(***************************************************************************)
(* Python string helpers.                                                  *)
(***************************************************************************)
RECURSIVE Pow2(_)
Pow2(n) == IF n <= 0 THEN 1 ELSE 2 * Pow2(n - 1)

\* n * s for a string s: the empty string when n <= 0
RECURSIVE Rep(_, _)
Rep(s, n) == IF n <= 0 THEN <<>> ELSE s \o Rep(s, n - 1)

\* binary digits of n >= 0, most significant first, at least one digit
RECURSIVE Bin(_)
Bin(n) == IF n < 2 THEN <<SYMBL[n]>> ELSE Bin(n \div 2) \o <<SYMBL[n % 2]>>

\* left padding with '0' up to width n
ZFill(s, n) == Rep(<<"0">>, n - Len(s)) \o s

At(s, i) == s[i + 1]

Min2(a, b) == IF a < b THEN a ELSE b

Double_MutNoHold(s) ==
    [k \in 1..(2 * Len(s)) |-> IF k % 2 = 1 THEN s[(k + 1) \div 2] ELSE "0"]

\* every character of s written twice: "".join([f"{c}{c}" for c in s])
RECURSIVE Double(_)
Double(s) == IF s = <<>> THEN <<>> ELSE <<Head(s), Head(s)>> \o Double(Tail(s))

\* f"{d:0{w}b}" for w >= 0: sign-aware zero padding to width w, never truncating
Format_MutLSBFirst(d, w) ==
    IF d < 0 THEN <<"-">> \o ZFill(Bin(0 - d), w - 1)
    ELSE LET s == ZFill(Bin(d), w) IN [k \in 1..Len(s) |-> s[Len(s) + 1 - k]]

Format(d, w) ==
    IF d < 0 THEN <<"-">> \o ZFill(Bin(0 - d), w - 1) ELSE ZFill(Bin(d), w)

\* the format specifier f"0{w}b" is invalid for a negative w ("0-1b")
FormatRaises(w) == w < 0

\* int("".join(s), 2) for a non-empty s of '0'/'1'
RECURSIVE Int2_MutLSBFirst(_)
Int2_MutLSBFirst(s) ==
    IF s = <<>> THEN 0
    ELSE LEVEL[Head(s)] + 2 * Int2_MutLSBFirst(Tail(s))

RECURSIVE Int2(_)
Int2(s) ==
    IF s = <<>> THEN 0
    ELSE 2 * Int2(SubSeq(s, 1, Len(s) - 1)) + LEVEL[s[Len(s)]]

(***************************************************************************)
(* The sequences of spi.transfer.                                          *)
(***************************************************************************)
SEL_SQ_MutLateFall(w) == <<"1", "1">> \o Rep(<<"0", "0">>, w) \o <<"1">>

SEL_SQ_MutEarlyRise(w) == <<"1">> \o Rep(<<"0", "0">>, w) \o <<"1", "1">>

SEL_SQ_MutShort(w) == <<"1">> \o Rep(<<"0", "0">>, w) \o <<"1">>

SEL_SQ(w) == <<"1">> \o Rep(<<"0", "0">>, w) \o <<"0", "1">>

CLK_S0_MutPhase(w) == <<"0">> \o Rep(<<"1", "0">>, w) \o <<"0", "0">>

CLK_S0_MutShort(w) == <<"0">> \o Rep(<<"0", "1">>, w) \o <<"0">>

CLK_S0(w) == <<"0">> \o Rep(<<"0", "1">>, w) \o <<"0", "0">>

CLK_S1_MutNotInverted(w) == <<"1">> \o Rep(<<"0", "1">>, w) \o <<"1", "1">>

CLK_S1(w) == <<"1">> \o Rep(<<"1", "0">>, w) \o <<"1", "1">>

DTO(d, w) == Double(Format(d, w))

DTO_S0_MutNoLead(d, w) == DTO(d, w) \o <<"0", "0", "0">>

DTO_S0(d, w) == <<"0">> \o DTO(d, w) \o <<"0", "0">>

DTO_S1_MutLate(d, w) == <<"0", "0", "0">> \o DTO(d, w)

DTO_S1(d, w) == <<"0", "0">> \o DTO(d, w) \o <<"0">>

TRG_MutOffByOne(w) == Rep(<<"0", "1">>, w - 1) \o <<"0", "0">>

TRG(w) == Rep(<<"0", "1">>, w)

TRG_S0_MutEarly(w) == TRG(w) \o <<"0", "0", "0">>

TRG_S0(w) == <<"0">> \o TRG(w) \o <<"0", "0">>

TRG_S1_MutLate(w) == <<"0", "0", "0">> \o TRG(w)

TRG_S1(w) == <<"0", "0">> \o TRG(w) \o <<"0">>

CLK_SQ(w, cpol) == IF cpol = 0 THEN CLK_S0(w) ELSE CLK_S1(w)

DTO_SQ(d, w, cpha) == IF cpha = 0 THEN DTO_S0(d, w) ELSE DTO_S1(d, w)

TRG_SQ(w, cpha) == IF cpha = 0 THEN TRG_S0(w) ELSE TRG_S1(w)

\* number of iterations of zip(SEL_SQ, CLK_SQ, DTO_SQ, TRG_SQ): the shortest
ZipLen(d, w, cpol, cpha) ==
    Min2(Min2(Len(SEL_SQ(w)), Len(CLK_SQ(w, cpol))),
         Min2(Len(DTO_SQ(d, w, cpha)), Len(TRG_SQ(w, cpha))))

(***************************************************************************)
(* The body of the transfer loop: the port operations in statement order.  *)
(***************************************************************************)
IOOrder_MutClockFirst == <<"sck", "mosi", "cs", "read">>

IOOrder == <<"mosi", "sck", "cs", "read">>

Pos(op) == CHOOSE k \in 1..Len(IOOrder) : IOOrder[k] = op

LastStmt(op) == Pos(op) = Len(IOOrder)

L == ZipLen(data, BITW, CPOL, CPHA)

\* control after statement op: the next statement of the body, the next
\* iteration of the loop, or the code after the loop
Advance(op) ==
    IF ~LastStmt(op)
    THEN /\ pc' = IOOrder[Pos(op) + 1]
         /\ idx' = idx
    ELSE /\ pc' = IF idx + 1 < L THEN IOOrder[1] ELSE "ret"
         /\ idx' = idx + 1

Event(op, l) == [i |-> idx, op |-> op, lvl |-> l]

Raise(e) ==
    /\ pc' = "error"
    /\ err' = e

(***************************************************************************)
(* Initial state: after spi.__init__.  PIN_CS is driven HIGH; PIN_SCK and  *)
(* PIN_MOSI are set up as outputs without an initial level.                *)
(***************************************************************************)
Widths == (0 - 1)..MaxW

DataSet(w) == (0 - 1)..(Pow2(w) + MaxExcess)

\* the concurrent callers and a call that has not started
Procs == {1, 2}

NoCall == [pc |-> "idle", data |-> 0, idx |-> 0, DATA |-> <<>>, result |-> 0]

Init ==
    /\ BITW \in Widths
    /\ CPOL \in {0, 1}
    /\ CPHA \in {0, 1}
    /\ loopback \in BOOLEAN
    /\ pc = "idle"
    /\ data = 0
    /\ idx = 0
    /\ cs = HIGH
    /\ sck \in {LOW, HIGH}
    /\ mosi \in {LOW, HIGH}
    /\ MISO = <<>>
    /\ DATA = <<>>
    /\ result = 0
    /\ err = "none"
    /\ trace = <<>>
    /\ sampled = <<>>
    /\ calls = [p \in Procs |-> NoCall]
    /\ overlapped = FALSE

(***************************************************************************)
(* transfer(d): lines 126-155, the sequences and the empty lists.          *)
(***************************************************************************)
Call(d) ==
    /\ pc \in {"idle", "done"}
    /\ data' = d
    /\ idx' = 0
    /\ MISO' = <<>>
    /\ DATA' = <<>>
    /\ trace' = <<>>
    /\ sampled' = <<>>
    /\ result' = 0
    /\ IF FormatRaises(BITW)
       THEN Raise("ValueError")
       ELSE /\ pc' = IOOrder[1]
            /\ err' = err
    /\ UNCHANGED <<BITW, CPOL, CPHA, loopback, mosi, sck, cs>>
    /\ UNCHANGED concVars

\* pinwrite(self.PIN_MOSI, LEVEL[DTO])
PinwriteMOSI ==
    /\ pc = "mosi"
    /\ LET c == At(DTO_SQ(data, BITW, CPHA), idx) IN
       IF c \notin DOMAIN LEVEL
       THEN /\ Raise("KeyError")
            /\ UNCHANGED <<idx, mosi, trace>>
       ELSE /\ mosi' = LEVEL[c]
            /\ trace' = Append(trace, Event("mosi", LEVEL[c]))
            /\ Advance("mosi")
            /\ err' = err
    /\ UNCHANGED <<BITW, CPOL, CPHA, loopback, data, sck, cs, MISO, DATA,
                   result, sampled>>
    /\ UNCHANGED concVars

\* pinwrite(self.PIN_SCK, LEVEL[CLK])
PinwriteSCK ==
    /\ pc = "sck"
    /\ LET c == At(CLK_SQ(BITW, CPOL), idx) IN
       /\ sck' = LEVEL[c]
       /\ trace' = Append(trace, Event("sck", LEVEL[c]))
    /\ Advance("sck")
    /\ UNCHANGED <<BITW, CPOL, CPHA, loopback, data, mosi, cs, MISO, DATA,
                   result, err, sampled>>
    /\ UNCHANGED concVars

\* pinwrite(self.PIN_CS, LEVEL[SEL])
PinwriteCS ==
    /\ pc = "cs"
    /\ LET c == At(SEL_SQ(BITW), idx) IN
       /\ cs' = LEVEL[c]
       /\ trace' = Append(trace, Event("cs", LEVEL[c]))
    /\ Advance("cs")
    /\ UNCHANGED <<BITW, CPOL, CPHA, loopback, data, mosi, sck, MISO, DATA,
                   result, err, sampled>>
    /\ UNCHANGED concVars

\* MISO.append(SYMBL[pinread(self.PIN_MISO)]); if TRG == "1": DATA.append(MISO[-1])
\* The input line follows PIN_MOSI under loopback, any level otherwise.
PinreadMISO ==
    /\ pc = "read"
    /\ \E l \in {LOW, HIGH} :
          /\ loopback => l = mosi
          /\ MISO' = Append(MISO, SYMBL[l])
          /\ trace' = Append(trace, Event("read", l))
          /\ IF At(TRG_SQ(BITW, CPHA), idx) = "1"
             THEN /\ DATA' = Append(DATA, SYMBL[l])
                  /\ sampled' = Append(sampled, idx)
             ELSE UNCHANGED <<DATA, sampled>>
    /\ Advance("read")
    /\ UNCHANGED <<BITW, CPOL, CPHA, loopback, data, mosi, sck, cs, result, err>>
    /\ UNCHANGED concVars

\* a pinwrite or pinread call raises: nothing in transfer catches it
PortError ==
    /\ pc \in {"mosi", "sck", "cs", "read"}
    /\ pc = "mosi" => At(DTO_SQ(data, BITW, CPHA), idx) \in DOMAIN LEVEL
    /\ Raise("PortError")
    /\ UNCHANGED <<BITW, CPOL, CPHA, loopback, data, idx, mosi, sck, cs,
                   MISO, DATA, result, trace, sampled>>
    /\ UNCHANGED concVars

\* return int("".join(DATA), 2)
Return ==
    /\ pc = "ret"
    /\ IF DATA = <<>>
       THEN /\ Raise("ValueError")
            /\ result' = result
       ELSE /\ result' = Int2(DATA)
            /\ pc' = "done"
            /\ err' = err
    /\ UNCHANGED <<BITW, CPOL, CPHA, loopback, data, idx, mosi, sck, cs,
                   MISO, DATA, trace, sampled>>
    /\ UNCHANGED concVars

Next ==
    \/ \E d \in DataSet(BITW) : Call(d)
    \/ PinwriteMOSI
    \/ PinwriteSCK
    \/ PinwriteCS
    \/ PinreadMISO
    \/ PortError
    \/ Return

Spec == Init /\ [][Next]_vars

TypeOK ==
    /\ BITW \in Widths
    /\ pc \in {"idle", "mosi", "sck", "cs", "read", "ret", "done", "error"}
    /\ mosi \in {LOW, HIGH} /\ sck \in {LOW, HIGH} /\ cs \in {LOW, HIGH}
    /\ err \in {"none", "ValueError", "KeyError", "PortError"}

(***************************************************************************)
(* Vocabulary of the properties.                                           *)
(***************************************************************************)
\* the word of the current transfer is in [0, 2^BITW)
InRange == BITW >= 1 /\ data \in 0..(Pow2(BITW) - 1)

\* positions of the trace holding operation op
Ops(op) == {p \in DOMAIN trace : trace[p].op = op}

PortOps == {"mosi", "sck", "cs", "read"}

\* the port operation performed last, when there is one
Last == trace[Len(trace)]

\* op is the port operation that has just been performed
JustDid(op) == trace # <<>> /\ pc # "error" /\ Last.op = op

\* the input line has just been read in a half-cycle that samples
JustSampled ==
    /\ JustDid("read")
    /\ sampled # <<>>
    /\ sampled[Len(sampled)] = Last.i

\* transfer has built its sequences and has not yet touched the port
JustCalled == pc # "idle" /\ trace = <<>>

(***************************************************************************)
(* C1: under loopback (the input line reads the level last written to      *)
(* data-out) a completed transfer of a word x in [0, 2^W), W >= 1, returns *)
(* x, in each of the four (CPOL, CPHA) modes.                              *)
(***************************************************************************)
C1_LoopbackRoundTrip ==
    (pc = "done" /\ loopback /\ InRange) => result = data

C1_Witness ==
    /\ pc = "done" /\ loopback /\ InRange
    /\ BITW >= 2 /\ CPHA = 1 /\ data = 1 /\ result = 1

(***************************************************************************)
(* C2: when a line write or read fails during a transfer, chip-select is   *)
(* at the inactive (high) level when the error reaches the caller.         *)
(* The code has no handler around the loop, so this is violated.           *)
(***************************************************************************)
C2_SelectReleasedOnPortError ==
    (pc = "error" /\ err = "PortError" /\ InRange) => cs = HIGH

(***************************************************************************)
(* C3: a transfer of a word >= 2^W or of a negative word fails with a      *)
(* range error before any port I/O and returns no result.                  *)
(* The code has no range check, so this is violated.                       *)
(***************************************************************************)
C3_RangeErrorBeforeIO ==
    (pc # "idle" /\ BITW >= 1 /\ (data < 0 \/ data >= Pow2(BITW))) =>
        /\ trace = <<>>
        /\ pc # "done"
        /\ pc = "error" => err = "ValueOutOfRange"

(***************************************************************************)
(* C4: a bit width W < 1 never reaches a transfer: with W < 1 no line is   *)
(* written or read and no error is raised from inside transfer.            *)
(* The code never validates BITW, so this is violated.                     *)
(***************************************************************************)
C4_WidthRejectedBeforeTransfer ==
    BITW < 1 => (trace = <<>> /\ err = "none")

(***************************************************************************)
(* C5: the port operations of a transfer occur half-cycle by half-cycle in *)
(* increasing index order, and inside each half-cycle in the order write   *)
(* data-out, write clock, write chip-select, read input.                   *)
(***************************************************************************)
C5_PortOrder ==
    \A p \in DOMAIN trace :
        /\ trace[p].i = (p - 1) \div 4
        /\ trace[p].op = <<"mosi", "sck", "cs", "read">>[((p - 1) % 4) + 1]

C5_Witness ==
    /\ pc = "done" /\ BITW >= 2
    /\ trace[Len(trace)].op = "read"
    /\ trace[Len(trace)].i = 2 * BITW + 2

(***************************************************************************)
(* C6 as stated: chip-select is written high at index 0, low at indices    *)
(* 1..2W, and high at both indices 2W+1 and 2W+2.  Violated: the code      *)
(* writes it low at index 2W+1.                                            *)
(***************************************************************************)
C6_Original ==
    BITW >= 1 =>
        \A p \in Ops("cs") :
            trace[p].lvl = IF trace[p].i \in 1..(2 * BITW) THEN LOW ELSE HIGH

(***************************************************************************)
(* C6 amended: chip-select is written high at index 0, low at every index  *)
(* 1..2W+1, and high only at the final index 2W+2, for every W >= 1 and    *)
(* every (CPOL, CPHA); a completed transfer writes it at every index.      *)
(***************************************************************************)
C6_Amended ==
    BITW >= 1 =>
        /\ \A p \in Ops("cs") :
              /\ trace[p].i \in 0..(2 * BITW + 2)
              /\ trace[p].lvl =
                    IF trace[p].i \in 1..(2 * BITW + 1) THEN LOW ELSE HIGH
        /\ pc = "done" => {trace[p].i : p \in Ops("cs")} = 0..(2 * BITW + 2)

C6_Witness ==
    /\ pc = "done" /\ BITW >= 1
    /\ \E p \in Ops("cs") : trace[p].i = 2 * BITW + 1 /\ trace[p].lvl = LOW
    /\ \E p \in Ops("cs") : trace[p].i = 2 * BITW + 2 /\ trace[p].lvl = HIGH

(***************************************************************************)
(* C7: for a word in [0, 2^W), W >= 1, and every (CPOL, CPHA), the four    *)
(* sequences all have length 2W+3 and the loop runs exactly 2W+3           *)
(* half-cycles.                                                            *)
(***************************************************************************)
C7_Lengths ==
    (pc # "idle" /\ InRange) =>
        /\ JustCalled =>
              /\ Len(SEL_SQ(BITW)) = 2 * BITW + 3
              /\ Len(CLK_SQ(BITW, CPOL)) = 2 * BITW + 3
              /\ Len(DTO_SQ(data, BITW, CPHA)) = 2 * BITW + 3
              /\ Len(TRG_SQ(BITW, CPHA)) = 2 * BITW + 3
        /\ idx <= 2 * BITW + 3
        /\ pc \in {"ret", "done"} => (idx = 2 * BITW + 3 /\ Len(MISO) = 2 * BITW + 3)

C7_Witness ==
    /\ pc = "done" /\ InRange /\ BITW >= 2
    /\ idx = 2 * BITW + 3
    /\ Len(MISO) = 2 * BITW + 3

(***************************************************************************)
(* C8: a transfer that completes performs exactly 3(2W+3) line writes and  *)
(* 2W+3 line reads: in every half-cycle one write of data-out, one of      *)
(* clock, one of chip-select and one read, sampling or not.                *)
(***************************************************************************)
C8_PortOpCounts ==
    pc = "done" =>
        /\ Len(trace) = 4 * (2 * BITW + 3)
        /\ \A op \in PortOps :
              /\ Cardinality(Ops(op)) = 2 * BITW + 3
              /\ {trace[p].i : p \in Ops(op)} = 0..(2 * BITW + 2)

C8_Witness ==
    /\ pc = "done" /\ BITW >= 1
    /\ Cardinality(Ops("read")) = 2 * BITW + 3
    /\ Len(sampled) < Cardinality(Ops("read"))

(***************************************************************************)
(* C9: the clock is written at the idle level CPOL at index 0 and at       *)
(* indices 2W+1 and 2W+2, and over 1..2W it alternates idle, non-idle      *)
(* starting idle at index 1; the CPOL=1 sequence is the index-wise         *)
(* complement of the CPOL=0 sequence; for every CPHA and W >= 1.           *)
(***************************************************************************)
ClockExpected(i) ==
    IF i = 0 \/ i >= 2 * BITW + 1 THEN CPOL
    ELSE IF i % 2 = 1 THEN CPOL ELSE 1 - CPOL

C9_Clock ==
    BITW >= 1 =>
        /\ \A p \in Ops("sck") : trace[p].lvl = ClockExpected(trace[p].i)
        /\ pc = "done" =>
              /\ {trace[p].i : p \in Ops("sck")} = 0..(2 * BITW + 2)
              /\ sck = CPOL
        /\ JustCalled =>
              LET S0 == CLK_S0(BITW)
                  S1 == CLK_S1(BITW)
              IN  /\ Len(S1) = Len(S0)
                  /\ \A k \in DOMAIN S0 : LEVEL[S1[k]] = 1 - LEVEL[S0[k]]

C9_Witness ==
    /\ pc = "done" /\ BITW >= 2 /\ CPOL = 1
    /\ \E p \in Ops("sck") : trace[p].i = 2 /\ trace[p].lvl = LOW
    /\ sck = HIGH

(***************************************************************************)
(* C10: the sample-trigger sequence has exactly W set positions, each two  *)
(* half-cycles after the previous one, for every W >= 1 and every mode;    *)
(* for W = 1 it has length 5 and one set position.  A completed transfer   *)
(* records exactly at those positions.                                     *)
(***************************************************************************)
TrgSet(T) == {i \in 0..(Len(T) - 1) : At(T, i) = "1"}

C10_Trigger ==
    BITW >= 1 =>
        LET T == TRG_SQ(BITW, CPHA) IN
        /\ JustCalled =>
              LET S == TrgSet(T) IN
              /\ Cardinality(S) = BITW
              /\ \E m \in S : S = {m + 2 * k : k \in 0..(BITW - 1)}
              /\ BITW = 1 => Len(T) = 5
        /\ \A k \in 1..(Len(sampled) - 1) : sampled[k + 1] - sampled[k] = 2
        /\ \A k \in DOMAIN sampled : At(T, sampled[k]) = "1"
        /\ pc = "done" => (Len(sampled) = BITW /\ Len(DATA) = BITW)

C10_Witness ==
    /\ pc = "done" /\ BITW >= 2
    /\ Len(sampled) = BITW
    /\ sampled[2] - sampled[1] = 2

(***************************************************************************)
(* C11: for a word in [0, 2^W) data-out carries the word MSB first, each   *)
(* bit doubled.  CPHA=0: index 0 low, indices 2k+1 and 2k+2 hold bit       *)
(* W-1-k (k = 0..W-1), indices 2W+1 and 2W+2 low.  CPHA=1: indices 0 and 1 *)
(* low, bit W-1-k at 2k+2 and 2k+3, index 2W+2 low.  For W=8 and the word  *)
(* 0b00001111, CPHA=0, indices 1..16 read 0000000011111111.                *)
(* Stated of each data-out write at the moment it has been performed, and  *)
(* of all of them once the transfer has completed.                         *)
(***************************************************************************)
\* bit j of d (bit 0 is the least significant)
Bit(d, j) == (d \div Pow2(j)) % 2

DataOutExpected(i) ==
    IF CPHA = 0
    THEN IF i = 0 \/ i >= 2 * BITW + 1 THEN LOW
         ELSE Bit(data, BITW - 1 - ((i - 1) \div 2))
    ELSE IF i <= 1 \/ i >= 2 * BITW + 2 THEN LOW
         ELSE Bit(data, BITW - 1 - ((i - 2) \div 2))

C11_DataOut ==
    InRange =>
        /\ JustDid("mosi") => Last.lvl = DataOutExpected(Last.i)
        /\ pc = "done" => {trace[p].i : p \in Ops("mosi")} = 0..(2 * BITW + 2)
        /\ JustCalled =>
              SubSeq(DTO_S0(15, 8), 2, 17) = Rep(<<"0">>, 8) \o Rep(<<"1">>, 8)

C11_Witness ==
    /\ pc = "done" /\ InRange /\ BITW >= 2 /\ CPHA = 1 /\ data = 2
    /\ \E p \in Ops("mosi") : trace[p].i = 3 /\ trace[p].lvl = HIGH
    /\ \E p \in Ops("mosi") : trace[p].i = 4 /\ trace[p].lvl = LOW

(***************************************************************************)
(* C12: whatever the input line does, the value a completed transfer       *)
(* returns is made of exactly W sampled levels, those read at the W        *)
(* sample-trigger indices, the first sample being the most significant     *)
(* bit; it lies in [0, 2^W) and no level read elsewhere enters it.         *)
(***************************************************************************)
\* the level read from the input line in half-cycle i
ReadLvl(i) == trace[CHOOSE p \in Ops("read") : trace[p].i = i].lvl

\* the half-cycle of the k-th sample, k = 0..W-1
TrigIdx(k) == 2 * k + 2 + CPHA

C12_ResultFromSamples ==
    pc = "done" =>
        /\ Len(DATA) = BITW
        /\ result \in 0..(Pow2(BITW) - 1)
        /\ \A k \in 0..(BITW - 1) :
              Bit(result, BITW - 1 - k) = ReadLvl(TrigIdx(k))

C12_Witness ==
    /\ pc = "done" /\ ~loopback /\ BITW >= 2
    /\ data = 1 /\ result = Pow2(BITW - 1)
    /\ ReadLvl(0) = HIGH /\ ReadLvl(2 * BITW + 2) = HIGH

(***************************************************************************)
(* C13 as stated: in every half-cycle that samples, the clock is written   *)
(* at its non-idle level (different from CPOL), for every (CPOL, CPHA).    *)
(* Violated for CPHA=1.                                                    *)
(***************************************************************************)
\* the level written to the clock in half-cycle i
SckLvl(i) == trace[CHOOSE p \in Ops("sck") : trace[p].i = i].lvl

C13_Original ==
    (BITW >= 1 /\ JustSampled) => SckLvl(Last.i) # CPOL

(***************************************************************************)
(* C13 amended: in every half-cycle that samples, the clock is at its      *)
(* non-idle level when CPHA=0 and at its idle level CPOL when CPHA=1, for  *)
(* both CPOL values and every W >= 1.                                      *)
(***************************************************************************)
C13_Amended ==
    (BITW >= 1 /\ JustSampled) =>
        IF CPHA = 0 THEN SckLvl(Last.i) # CPOL ELSE SckLvl(Last.i) = CPOL

C13_Witness ==
    /\ pc = "done" /\ BITW >= 2 /\ CPHA = 1 /\ CPOL = 1
    /\ Len(sampled) = BITW
    /\ SckLvl(sampled[1]) = HIGH
    /\ SckLvl(sampled[BITW]) = HIGH

(***************************************************************************)
(* C14 as stated: in every mode, data-out holds bit W-1-k of the word in   *)
(* both half-cycles 2k+1 and 2k+2 of the k-th clock period, k = 0..W-1.    *)
(* Violated for CPHA=1.                                                    *)
(***************************************************************************)
\* the level written to data-out in half-cycle i
MosiLvl(i) == trace[CHOOSE p \in Ops("mosi") : trace[p].i = i].lvl

C14_Original ==
    (InRange /\ JustDid("mosi")) =>
        \A k \in 0..(BITW - 1) :
            Last.i \in {2 * k + 1, 2 * k + 2} =>
                Last.lvl = Bit(data, BITW - 1 - k)

(***************************************************************************)
(* C14 amended: each of the W output bits is held on data-out for two      *)
(* consecutive half-cycles: for CPHA=0 the two half-cycles 2k+1 and 2k+2   *)
(* of the k-th clock period, for CPHA=1 the half-cycles 2k+2 and 2k+3      *)
(* (the second half of period k and the half-cycle after it).              *)
(***************************************************************************)
C14_Amended ==
    (InRange /\ JustDid("mosi")) =>
        \A k \in 0..(BITW - 1) :
            Last.i \in {2 * k + 1 + CPHA, 2 * k + 2 + CPHA} =>
                Last.lvl = Bit(data, BITW - 1 - k)

C14_Witness ==
    /\ pc = "done" /\ InRange /\ BITW >= 2 /\ CPHA = 1 /\ data = 1
    /\ MosiLvl(2 * BITW - 1) = LOW
    /\ MosiLvl(2 * BITW) = HIGH
    /\ MosiLvl(2 * BITW + 1) = HIGH

(***************************************************************************)
(* C15: every sampling half-cycle i is the one in which the clock makes    *)
(* the edge CPHA selects: for CPHA=0 from idle to non-idle (Clock[i-1] =   *)
(* CPOL, Clock[i] # CPOL), for CPHA=1 from non-idle to idle (Clock[i-1] #  *)
(* CPOL, Clock[i] = CPOL), for both CPOL values and every W >= 1.          *)
(***************************************************************************)
C15_SampleOnEdge ==
    (BITW >= 1 /\ JustSampled) =>
            LET i == Last.i IN
            /\ i >= 1
            /\ IF CPHA = 0
               THEN SckLvl(i - 1) = CPOL /\ SckLvl(i) # CPOL
               ELSE SckLvl(i - 1) # CPOL /\ SckLvl(i) = CPOL

C15_Witness ==
    /\ pc = "done" /\ BITW >= 2 /\ CPHA = 0 /\ CPOL = 0
    /\ Len(sampled) = BITW
    /\ SckLvl(sampled[2] - 1) = LOW
    /\ SckLvl(sampled[2]) = HIGH

(***************************************************************************)
(* C16: data-out does not change level in a sampling half-cycle: at every  *)
(* index i that samples, the level written to data-out equals the level    *)
(* written at i-1, in all four modes.                                      *)
(***************************************************************************)
C16_DataStableAtSample ==
    (BITW >= 1 /\ JustSampled) =>
        /\ Last.i >= 1
        /\ MosiLvl(Last.i) = MosiLvl(Last.i - 1)

C16_Witness ==
    /\ pc = "done" /\ InRange /\ BITW >= 2 /\ CPHA = 1
    /\ data = Pow2(BITW - 1)
    /\ sampled[1] = 3
    /\ MosiLvl(1) = LOW /\ MosiLvl(2) = HIGH /\ MosiLvl(3) = HIGH

(***************************************************************************)
(* C17: in a transfer that starts with the lines at idle (chip-select      *)
(* high, clock at CPOL) the clock line changes level exactly 2W times, and *)
(* each change happens while the chip-select line is low.  The clock line  *)
(* changes at the clock write of every index 2..2W+1, with chip-select low *)
(* before and after the write, and at no other step except the clock write *)
(* of index 0 of a transfer that found the clock away from CPOL.           *)
(***************************************************************************)
\* half-cycles whose clock write differs from the one before
ClockChanges == {i \in 1..(2 * BITW + 2) : SckLvl(i) # SckLvl(i - 1)}

C17_ClockEdges ==
    /\ [](pc = "done" =>
            /\ SckLvl(0) = CPOL
            /\ ClockChanges = 2..(2 * BITW + 1)
            /\ Cardinality(ClockChanges) = 2 * BITW)
    /\ [][BITW >= 1 =>
            /\ sck' # sck =>
                 \/ idx = 0 /\ sck # CPOL
                 \/ idx \in 2..(2 * BITW + 1) /\ cs = LOW /\ cs' = LOW
            /\ (pc = "sck" /\ pc' # "error" /\ idx \in 2..(2 * BITW + 1)) =>
                 sck' # sck]_vars

C17_Witness ==
    /\ pc = "done" /\ BITW >= 2
    /\ SckLvl(0) = CPOL
    /\ Cardinality(ClockChanges) = 2 * BITW
    /\ cs = HIGH /\ sck = CPOL

(***************************************************************************)
(* C18: every sample is taken while the slave is selected: in each         *)
(* half-cycle that samples, the chip-select line is low when the input     *)
(* line is read, for both CPOL values and both CPHA values, the last       *)
(* sample of a CPHA=1 transfer at index 2W+1 included.                     *)
(***************************************************************************)
\* the level written to chip-select in half-cycle i
CsLvl(i) == trace[CHOOSE p \in Ops("cs") : trace[p].i = i].lvl

C18_SampleWhileSelected ==
    /\ []((BITW >= 1 /\ JustSampled) => (CsLvl(Last.i) = LOW /\ cs = LOW))
    /\ [][(BITW >= 1 /\ Len(sampled') > Len(sampled)) =>
            (cs = LOW /\ cs' = LOW)]_vars

C18_Witness ==
    /\ BITW >= 1 /\ CPHA = 1
    /\ Len(sampled) = BITW
    /\ sampled[BITW] = 2 * BITW + 1
    /\ pc = "mosi" /\ idx = 2 * BITW + 2
    /\ cs = LOW

(***************************************************************************)
(* C19: after a completed transfer of a word in [0, 2^W) the lines are at  *)
(* idle for as long as no transfer is in progress: chip-select high, clock *)
(* at CPOL, data-out low.  Half-cycle 0 of the next transfer writes these  *)
(* same levels, so no line changes level from the end of one transfer      *)
(* until half-cycle 1 of the next.                                         *)
(***************************************************************************)
Idle == cs = HIGH /\ sck = CPOL /\ mosi = LOW

\* the level half-cycle 0 writes to each line
IdleLvl(op) == IF op = "cs" THEN HIGH ELSE IF op = "sck" THEN CPOL ELSE LOW

C19_IdleBetweenTransfers ==
    /\ []((pc = "done" /\ InRange) => Idle)
    /\ []((BITW >= 1 /\ trace # <<>> /\ Last.i = 0 /\ Last.op # "read") =>
            Last.lvl = IdleLvl(Last.op))
    /\ [][(BITW >= 1 /\ Idle /\ (pc = "done" \/ (idx = 0 /\ pc \in PortOps))) =>
            (Idle' /\ <<mosi, sck, cs>>' = <<mosi, sck, cs>>)]_vars

C19_Witness ==
    /\ pc = "done" /\ InRange /\ BITW >= 2 /\ CPOL = 1
    /\ data = Pow2(BITW) - 1
    /\ Idle

(***************************************************************************)
(* Two transfer calls on the same pins (two threads, or two scripts run    *)
(* concurrently, the case __init__ silences warnings for).  Each call has  *)
(* its own locals, kept in calls[p]; the pins are shared; transfer takes   *)
(* no lock, so the calls interleave at every port operation.  Words are in *)
(* range and BITW >= 1, MISO is tied to MOSI, and the port does not fail.  *)
(* The list MISO is left out: transfer reads back only MISO[-1], the level *)
(* it has just read.                                                       *)
(***************************************************************************)
InitConc ==
    /\ BITW \in 1..MaxConcW
    /\ CPOL \in {0, 1}
    /\ CPHA \in {0, 1}
    /\ loopback = TRUE
    /\ pc = "idle"
    /\ data = 0
    /\ idx = 0
    /\ cs = HIGH
    /\ sck \in {LOW, HIGH}
    /\ mosi \in {LOW, HIGH}
    /\ MISO = <<>>
    /\ DATA = <<>>
    /\ result = 0
    /\ err = "none"
    /\ trace = <<>>
    /\ sampled = <<>>
    /\ calls = [p \in Procs |-> NoCall]
    /\ overlapped = FALSE

\* the variables of the single caller and the configuration
soloVars == <<BITW, CPOL, CPHA, loopback, pc, data, idx, MISO, DATA, result,
              err, trace, sampled>>

Running(c) == c.pc \notin {"idle", "done"}

\* control of call c after statement op, as Advance
AdvanceCall(c, op) ==
    IF ~LastStmt(op)
    THEN [c EXCEPT !.pc = IOOrder[Pos(op) + 1]]
    ELSE [c EXCEPT !.pc = IF c.idx + 1 < ZipLen(c.data, BITW, CPOL, CPHA)
                          THEN IOOrder[1] ELSE "ret",
                   !.idx = c.idx + 1]

\* transfer(d) entered by caller p
ConcCall(p, d) ==
    /\ calls[p].pc = "idle"
    /\ calls' = [calls EXCEPT ![p] = [NoCall EXCEPT !.pc = IOOrder[1], !.data = d]]
    /\ overlapped' = (overlapped \/ \E q \in Procs \ {p} : Running(calls[q]))
    /\ UNCHANGED <<soloVars, mosi, sck, cs>>

ConcPinwriteMOSI(p) ==
    /\ calls[p].pc = "mosi"
    /\ mosi' = LEVEL[At(DTO_SQ(calls[p].data, BITW, CPHA), calls[p].idx)]
    /\ calls' = [calls EXCEPT ![p] = AdvanceCall(calls[p], "mosi")]
    /\ UNCHANGED <<soloVars, sck, cs, overlapped>>

ConcPinwriteSCK(p) ==
    /\ calls[p].pc = "sck"
    /\ sck' = LEVEL[At(CLK_SQ(BITW, CPOL), calls[p].idx)]
    /\ calls' = [calls EXCEPT ![p] = AdvanceCall(calls[p], "sck")]
    /\ UNCHANGED <<soloVars, mosi, cs, overlapped>>

ConcPinwriteCS(p) ==
    /\ calls[p].pc = "cs"
    /\ cs' = LEVEL[At(SEL_SQ(BITW), calls[p].idx)]
    /\ calls' = [calls EXCEPT ![p] = AdvanceCall(calls[p], "cs")]
    /\ UNCHANGED <<soloVars, mosi, sck, overlapped>>

ConcPinreadMISO(p) ==
    /\ calls[p].pc = "read"
    /\ LET c == calls[p]
           d == IF At(TRG_SQ(BITW, CPHA), c.idx) = "1"
                THEN [c EXCEPT !.DATA = Append(c.DATA, SYMBL[mosi])]
                ELSE c
       IN  calls' = [calls EXCEPT ![p] = AdvanceCall(d, "read")]
    /\ UNCHANGED <<soloVars, mosi, sck, cs, overlapped>>

ConcReturn(p) ==
    /\ calls[p].pc = "ret"
    /\ calls[p].DATA # <<>>
    /\ calls' = [calls EXCEPT ![p] = [calls[p] EXCEPT !.pc = "done",
                                                      !.result = Int2(calls[p].DATA)]]
    /\ UNCHANGED <<soloVars, mosi, sck, cs, overlapped>>

NextConc ==
    \/ \E p \in Procs : \E d \in 0..(Pow2(BITW) - 1) : ConcCall(p, d)
    \/ \E p \in Procs : ConcPinwriteMOSI(p)
    \/ \E p \in Procs : ConcPinwriteSCK(p)
    \/ \E p \in Procs : ConcPinwriteCS(p)
    \/ \E p \in Procs : ConcPinreadMISO(p)
    \/ \E p \in Procs : ConcReturn(p)

SpecConc == InitConc /\ [][NextConc]_vars

(***************************************************************************)
(* C20: transfer takes no lock on the port.  When two calls are            *)
(* serialized (one completes before the other starts) each returns, under  *)
(* loopback, the word it sent; when they interleave at single port         *)
(* operations, a call can return a word different from the one it sent.    *)
(***************************************************************************)
C20_SerializedRoundTrip ==
    \A p \in Procs :
        (calls[p].pc = "done" /\ ~overlapped) => calls[p].result = calls[p].data

C20_Witness ==
    /\ overlapped /\ loopback
    /\ \A p \in Procs : calls[p].pc = "done"
    /\ \E p \in Procs : calls[p].result # calls[p].data

====
